---------------------------- MODULE Spec2Model ----------------------------
(***************************************************************************)
(* Webhook message integrity (src/task_4/implementation-examples.py):      *)
(* WebhookPayloadBuilder builds and signs event envelopes,                 *)
(* WebhookValidator checks structure, freshness, replay and signature.     *)
(*                                                                         *)
(* Python values are tagged pairs <<type, value>>; a dict is the sequence   *)
(* of its <<key, value>> items in insertion order (dicts keep insertion     *)
(* order and json.dumps writes the items in that order).                   *)
(***************************************************************************)
EXTENDS Integers, Sequences, FiniteSets, TLC

VARIABLES
    builder,     \* the WebhookPayloadBuilder: secret_key, system_name, version
    validator,   \* the WebhookValidator: secret_key, processed_requests
    now,         \* the validator host's clock, whole seconds
    wire,        \* the delivery in flight: payload, signature header, and what was signed
    last,        \* the validate_payload call just made on the delivery, and how it ended
    carried,     \* request ids carried by the envelopes of the validate_payload calls so far
    calls,       \* concurrent validate_payload calls: one frame per thread
    direct,      \* one operation called on its own: its arguments and what it left
    users,       \* src/task_7/app.py: the rows of the User table, by id
    session,     \* ... the Flask session of the one client
    activity_log, \* ... the rows of the ActivityLog table, in insertion order
    response     \* ... the request just served and the response to it

\* the state of the webhook classes and the state of the impersonation app
hookVars == <<builder, validator, now, wire, last, carried, calls, direct>>
appVars  == <<users, session, activity_log, response>>
vars == <<builder, validator, now, wire, last, carried, calls, direct,
          users, session, activity_log, response>>

-----------------------------------------------------------------------------
(* Bounds of the model                                                     *)

MaxSkew == 1        \* clock readings: 0..MaxSkew and MAX_AGE..MAX_AGE+MaxSkew
MaxThreads == 2     \* threads calling validate_payload at the same time

(* Program constants                                                       *)

MAX_AGE == 300      \* "if age_seconds > 300"
CONF_MIN == 700     \* "obj.get('confidence', 0) >= 0.7", in thousandths

-----------------------------------------------------------------------------
(* Python values                                                           *)

Str(s)   == <<"str", s>>      \* str
Text(ts) == <<"text", ts>>     \* str held as a sequence of pieces (for str.replace)
PyInt(n) == <<"int", n>>      \* int
Float(m) == <<"float", m>>      \* float, m thousandths
Map(d)   == <<"dict", d>>      \* dict: sequence of <<key, value>> items
List(l)  == <<"list", l>>      \* list
Tuple(l) == <<"tuple", l>>     \* tuple
None     == <<"None", 0>>      \* None
Exc(name) == <<"raise", name>>  \* an exception leaving the function
IsExc(x)  == x[1] = "raise"

\* bool(x) for the values of the model
Truthy(x) ==
    CASE x[1] = "None"  -> FALSE
      [] x[1] = "str"   -> x[2] # ""
      [] x[1] = "text"  -> x[2] # <<>>
      [] x[1] = "int"   -> x[2] # 0
      [] x[1] = "float" -> x[2] # 0
      [] x[1] = "dict"  -> x[2] # <<>>
      [] x[1] = "list"  -> x[2] # <<>>
      [] x[1] = "tuple" -> x[2] # <<>>

\* dict operations on item sequences
Keys(d)   == {d[i][1] : i \in DOMAIN d}
Has(d, k) == k \in Keys(d)                                    \* k in d
Get(d, k) == d[CHOOSE i \in DOMAIN d : d[i][1] = k][2]         \* d[k]
GetOr(d, k, dflt) == IF Has(d, k) THEN Get(d, k) ELSE dflt     \* d.get(k, dflt)
Put(d, k, x) ==                                                \* d[k] = x
    IF Has(d, k)
    THEN [i \in DOMAIN d |-> IF d[i][1] = k THEN <<k, x>> ELSE d[i]]
    ELSE Append(d, <<k, x>>)
Pop(d, k) == SelectSeq(d, LAMBDA kv : kv[1] # k)               \* d.pop(k, None)

\* {k: v for k, v in d.items() if k in ks}, and ... if k not in ks
OnlyKeys(d, ks)    == SelectSeq(d, LAMBDA kv : kv[1] \in ks)
WithoutKeys(d, ks) == SelectSeq(d, LAMBDA kv : kv[1] \notin ks)

-----------------------------------------------------------------------------
(* json.dumps(x, separators=(',', ':')): no whitespace, dict items in      *)
(* insertion order (sort_keys is not set)                                  *)

RECURSIVE dumps(_)
dumps(x) ==
    LET Join(items, Piece(_)) ==
            LET J[i \in 0..Len(items)] ==
                    IF i = 0 THEN ""
                    ELSE J[i-1] \o (IF i = 1 THEN "" ELSE ",") \o Piece(items[i])
            IN  J[Len(items)]
        Item(kv) == "\"" \o kv[1] \o "\":" \o dumps(kv[2])
        Chunk(s) == s
    IN  CASE x[1] = "str"   -> "\"" \o x[2] \o "\""
          [] x[1] = "text"  -> "\"" \o Join(x[2], Chunk) \o "\""
          [] x[1] = "int"   -> ToString(x[2])
          [] x[1] = "float" -> ToString(x[2]) \o "e-3"
          [] x[1] = "None"  -> "null"
          [] x[1] = "dict"  -> "{" \o Join(x[2], Item) \o "}"
          [] x[1] = "list"  -> "[" \o Join(x[2], dumps) \o "]"
          [] x[1] = "tuple" -> "[" \o Join(x[2], dumps) \o "]"

\* faulty variant of hmac_sha256: a digest that does not depend on the key
hmac_sha256_NoKey(key, msg) == "hmac(" \o msg \o ")"

\* hmac.new(key, msg, sha256).digest() and base64.b64encode: an ideal keyed
\* hash, different (key, msg) give different digests
hmac_sha256(key, msg) == "hmac(" \o key \o "," \o msg \o ")"
b64encode(digest)     == "b64:" \o digest

SHA_PREFIX == "sha256="

-----------------------------------------------------------------------------
(* class WebhookPayloadBuilder                                             *)

\* __init__(secret_key, system_name="frame-analyzer", version="1.0.0")
Builder__init__(secret_key) ==
    [secret_key |-> secret_key, system_name |-> "frame-analyzer", version |-> "1.0.0"]

\* a number in thousandths, whatever its Python type
Thousandths(x) == IF x[1] = "int" THEN x[2] * 1000 ELSE x[2]

\* round(x, 2) of a float (halves go up here; Python rounds the binary value)
round2(x) ==
    IF x[1] = "int" THEN x
    ELSE Float(IF x[2] >= 0 THEN ((x[2] + 5) \div 10) * 10 ELSE -(((-x[2]) + 5) \div 10) * 10)

\* int(x): truncation toward zero
int(x) ==
    IF x[1] = "int" THEN x
    ELSE PyInt(IF x[2] >= 0 THEN x[2] \div 1000 ELSE -((-x[2]) \div 1000))

\* faulty variant of compress_object: an object is kept only when its
\* confidence is above 0.7
compress_object_Strict(obj) ==
    IF Thousandths(GetOr(obj[2], "confidence", PyInt(0))) > CONF_MIN
    THEN IF ~Has(obj[2], "type") THEN Exc("KeyError")
         ELSE LET compressed_obj == << <<"type", Get(obj[2], "type")>>,
                                       <<"conf", round2(Get(obj[2], "confidence"))>> >>
                  bbox == Get(obj[2], "bounding_box")
              IN  IF ~Has(obj[2], "bounding_box") THEN List(<<Map(compressed_obj)>>)
                  ELSE IF bbox[1] = "dict"
                  THEN List(<<Map(Append(compressed_obj, <<"bbox", List(<<
                           int(GetOr(bbox[2], "x", PyInt(0))), int(GetOr(bbox[2], "y", PyInt(0))),
                           int(GetOr(bbox[2], "width", PyInt(0))),
                           int(GetOr(bbox[2], "height", PyInt(0))) >>)>>))>>)
                  ELSE IF bbox[1] = "list"
                  THEN List(<<Map(Append(compressed_obj,
                           <<"bbox", List([i \in DOMAIN bbox[2] |-> int(bbox[2][i])])>>))>>)
                  ELSE List(<<Map(compressed_obj)>>)
    ELSE List(<<>>)

\* the loop body of _compress_detection_details for one object: <<>> when the
\* object is skipped, <<compressed_obj>> when kept, an exception when obj["type"]
\* is missing
compress_object(obj) ==
    IF Thousandths(GetOr(obj[2], "confidence", PyInt(0))) >= CONF_MIN
    THEN IF ~Has(obj[2], "type") THEN Exc("KeyError")
         ELSE LET compressed_obj == << <<"type", Get(obj[2], "type")>>,
                                       <<"conf", round2(Get(obj[2], "confidence"))>> >>
                  bbox == Get(obj[2], "bounding_box")
              IN  IF ~Has(obj[2], "bounding_box") THEN List(<<Map(compressed_obj)>>)
                  ELSE IF bbox[1] = "dict"
                  THEN List(<<Map(Append(compressed_obj, <<"bbox", List(<<
                           int(GetOr(bbox[2], "x", PyInt(0))), int(GetOr(bbox[2], "y", PyInt(0))),
                           int(GetOr(bbox[2], "width", PyInt(0))),
                           int(GetOr(bbox[2], "height", PyInt(0))) >>)>>))>>)
                  ELSE IF bbox[1] = "list"
                  THEN List(<<Map(Append(compressed_obj,
                           <<"bbox", List([i \in DOMAIN bbox[2] |-> int(bbox[2][i])])>>))>>)
                  ELSE List(<<Map(compressed_obj)>>)
    ELSE List(<<>>)

\* faulty variant of compress_detection_details: the compressed objects are
\* stored into the details as given, whose other keys stay
compress_detection_details_KeepsSiblings(details) ==
    IF ~Has(details[2], "objects") THEN details
    ELSE LET objs == Get(details[2], "objects")[2]
             Acc[i \in 0..Len(objs)] ==
                 IF i = 0 THEN List(<<>>)
                 ELSE IF IsExc(Acc[i-1]) THEN Acc[i-1]
                 ELSE LET one == compress_object(objs[i])
                      IN  IF IsExc(one) THEN one ELSE List(Acc[i-1][2] \o one[2])
         IN  IF IsExc(Acc[Len(objs)]) THEN Acc[Len(objs)]
             ELSE Map(Put(details[2], "objects", Acc[Len(objs)]))

\* _compress_detection_details(details)
compress_detection_details(details) ==
    IF ~Has(details[2], "objects") THEN Map(<<>>)
    ELSE LET objs == Get(details[2], "objects")[2]
             Acc[i \in 0..Len(objs)] ==
                 IF i = 0 THEN List(<<>>)
                 ELSE IF IsExc(Acc[i-1]) THEN Acc[i-1]
                 ELSE LET one == compress_object(objs[i])
                      IN  IF IsExc(one) THEN one ELSE List(Acc[i-1][2] \o one[2])
         IN  IF IsExc(Acc[Len(objs)]) THEN Acc[Len(objs)]
             ELSE Map(<< <<"objects", Acc[Len(objs)]>> >>)

\* faulty variant of essential_fields: session_id is not on the list
essential_fields_NoSession == {"incident_id", "frame_id", "confidence"}

essential_fields == {"incident_id", "frame_id", "confidence", "session_id"}
excluded_fields  == {"debug_info", "raw_frame_data", "processing_metadata"}

\* The dict objects _optimize_data_for_profile works on, by reference: "data"
\* is the caller's dict, "built" the dict a comprehension creates. A statement
\* that stores through a reference changes the object the reference names.
Objects(data) == [data |-> data, built |-> Map(<<>>)]

\* target[k] = x
Store(objects, target, k, x) == [objects EXCEPT ![target] = Map(Put(@[2], k, x))]

\* what _optimize_data_for_profile leaves: the reference it returns and the
\* objects, or the exception it raised
Leave(raised, ref, objects) == [raised |-> raised, ref |-> ref, objects |-> objects]

\* lines 64-66, `optimized` naming one of the objects:
\*   if "detection_details" in optimized:
\*       optimized["detection_details"] = self._compress_detection_details(...)
StoreCompressed(objects, optimized, c) ==
    IF IsExc(c) THEN Leave(c[2], optimized, objects)
    ELSE Leave("none", optimized, Store(objects, optimized, "detection_details", c))

CompressDetails(objects, optimized) ==
    IF Has(objects[optimized][2], "detection_details")
    THEN StoreCompressed(objects, optimized,
             compress_detection_details(Get(objects[optimized][2], "detection_details")))
    ELSE Leave("none", optimized, objects)

\* faulty variant of optimize_objects: the excluded fields are deleted from
\* `data` itself and `optimized` is another name of `data`
optimize_objects_InPlace(data, profile) ==
    IF profile = "minimal"
    THEN Leave("none", "built",
               [Objects(data) EXCEPT !.built = Map(OnlyKeys(data[2], essential_fields))])
    ELSE IF profile = "standard"
    THEN CompressDetails(
             [Objects(data) EXCEPT !.data = Map(WithoutKeys(data[2], excluded_fields))], "data")
    ELSE Leave("none", "data", Objects(data))

\* faulty variant of optimize_objects: only "detailed" returns the data as
\* it is, any other profile string is handled as "standard"
optimize_objects_DefaultStandard(data, profile) ==
    IF profile = "minimal"
    THEN Leave("none", "built",
               [Objects(data) EXCEPT !.built = Map(OnlyKeys(data[2], essential_fields))])
    ELSE IF profile = "detailed"
    THEN Leave("none", "data", Objects(data))
    ELSE CompressDetails(
             [Objects(data) EXCEPT !.built = Map(WithoutKeys(data[2], excluded_fields))], "built")

\* _optimize_data_for_profile(data, profile), statement by statement: the
\* comprehensions of lines 54 and 60 create the dict "built"; "detailed"
\* returns the caller's dict
optimize_objects(data, profile) ==
    IF profile = "minimal"
    THEN Leave("none", "built",
               [Objects(data) EXCEPT !.built = Map(OnlyKeys(data[2], essential_fields))])
    ELSE IF profile = "standard"
    THEN CompressDetails(
             [Objects(data) EXCEPT !.built = Map(WithoutKeys(data[2], excluded_fields))], "built")
    ELSE Leave("none", "data", Objects(data))

\* the value a call returns: the object its reference names, or the exception
ValueLeft(r) == IF r.raised # "none" THEN Exc(r.raised) ELSE r.objects[r.ref]

\* faulty variant of optimize_data_for_profile: "detailed" is reduced like
\* "standard"
optimize_data_for_profile_Reduced(data, profile) ==
    ValueLeft(optimize_objects(data, IF profile = "detailed" THEN "standard" ELSE profile))

\* the value _optimize_data_for_profile(data, profile) returns; data is a dict value
optimize_data_for_profile(data, profile) == ValueLeft(optimize_objects(data, profile))

\* datetime.isoformat() of the instant t (whole seconds)
isoformat(t) == "1970-01-01T00:00:00+" \o ToString(t) \o "s"

\* _generate_request_id(): f"req_{int(time.time() * 1000)}_{str(uuid.uuid4())[:8]}"
generate_request_id(t, uuid8) == "req_" \o ToString(t * 1000) \o "_" \o uuid8

\* WebhookPayloadBuilder._generate_signature(payload): the signature as the
\* pieces of the f-string "sha256=" + base64
Builder_generate_signature(self, payload) ==
    LET payload_copy == Pop(payload, "signature")
        payload_bytes == dumps(Map(payload_copy))
    IN  <<SHA_PREFIX, b64encode(hmac_sha256(self.secret_key, payload_bytes))>>

\* create_payload(event_type, data, profile, priority); t is the builder host's
\* clock reading and uuid8, hex8 the random hex it draws
create_payload(self, event_type, data, profile, priority, t, uuid8, hex8) ==
    LET reduced == optimize_data_for_profile(data, profile)
        base_payload == <<
            <<"event", Str(event_type)>>,
            <<"timestamp", Str(isoformat(t) \o "Z")>>,
            <<"source", Map(<< <<"system", Str(self.system_name)>>,
                               <<"version", Str(self.version)>>,
                               <<"instance_id", Str(self.system_name \o "-" \o hex8)>> >>)>>,
            <<"data", reduced>>,
            <<"meta", Map(<< <<"request_id", Str(generate_request_id(t, uuid8))>>,
                             <<"priority", Str(priority)>>,
                             <<"schema_version", Str("1.0.0")>> >>)>> >>
    IN  IF IsExc(reduced) THEN <<>>
        ELSE Put(base_payload, "signature",
                 Text(Builder_generate_signature(self, base_payload)))

-----------------------------------------------------------------------------
(* class WebhookValidator                                                  *)

\* the clock readings of the model
Instants == (0..MaxSkew) \cup (MAX_AGE..(MAX_AGE + MaxSkew))

\* __init__(secret_key)
Validator__init__(secret_key) == [secret_key |-> secret_key, processed_requests |-> {}]

\* faulty variant of Return: "valid" is left as it was initialised (line 132)
Return_ValidNeverSet(errors, processed) ==
    [raised |-> "none", valid |-> FALSE, errors |-> errors,
     processed_requests |-> processed]

\* how a call ends: by return (raised = "none") or by an exception; errors is
\* validation_result["errors"] as the call left it
Return(errors, processed) ==
    [raised |-> "none", valid |-> Len(errors) = 0, errors |-> errors,
     processed_requests |-> processed]
Raise(exc, errors, processed) ==
    [raised |-> exc, valid |-> FALSE, errors |-> errors, processed_requests |-> processed]

\* faulty variant of required_fields: the signature field is required too
required_fields_WithSignature ==
    <<"event", "timestamp", "source", "data", "meta", "signature">>

required_fields == <<"event", "timestamp", "source", "data", "meta">>

\* "for field in required_fields: if field not in payload: errors.append(...)"
MissingFields(payload) ==
    LET Miss[i \in 0..Len(required_fields)] ==
            IF i = 0 THEN <<>>
            ELSE IF Has(payload, required_fields[i]) THEN Miss[i-1]
            ELSE Append(Miss[i-1], "Missing required field: " \o required_fields[i])
    IN  Miss[Len(required_fields)]

\* datetime.fromisoformat(s.replace('Z', '+00:00')): the instant that s writes,
\* or ValueError
Parsable(s)    == \E t \in Instants : s = isoformat(t) \o "Z"
fromisoformat(s) == CHOOSE t \in Instants : s = isoformat(t) \o "Z"

\* faulty variants of TooOld: the bound taken inclusive; the window taken on
\* both sides of the clock
TooOld_Inclusive(age_seconds) == age_seconds >= MAX_AGE
TooOld_BothSides(age_seconds) == age_seconds > MAX_AGE \/ age_seconds < -MAX_AGE

\* "if age_seconds > 300"
TooOld(age_seconds) == age_seconds > MAX_AGE

\* the timestamp check: the errors it appends, or the exception that leaves it
\* (.replace on a value that is no str is an AttributeError, which
\* "except ValueError" does not catch)
CheckTimestamp(payload, clock) ==
    IF ~Has(payload, "timestamp") THEN [raised |-> "none", errors |-> <<>>]
    ELSE LET ts == Get(payload, "timestamp")
         IN  IF ts[1] # "str" THEN [raised |-> "AttributeError", errors |-> <<>>]
             ELSE IF ~Parsable(ts[2])
             THEN [raised |-> "none", errors |-> <<"Invalid timestamp format">>]
             ELSE IF TooOld(clock - fromisoformat(ts[2]))
             THEN [raised |-> "none", errors |-> <<"Timestamp too old">>]
             ELSE [raised |-> "none", errors |-> <<>>]

\* request_id = payload.get("meta", {}).get("request_id"): an AttributeError
\* when meta is no dict
RequestIdOf(payload) ==
    LET meta == GetOr(payload, "meta", Map(<<>>))
    IN  IF meta[1] # "dict" THEN Exc("AttributeError")
        ELSE GetOr(meta[2], "request_id", None)

\* faulty variant of CheckReplay: the replay set keeps the latest id only
CheckReplay_KeepsLatest(self, payload) ==
    LET request_id == RequestIdOf(payload)
    IN  IF IsExc(request_id)
        THEN [raised |-> request_id[2], errors |-> <<>>,
              processed_requests |-> self.processed_requests]
        ELSE IF ~Truthy(request_id)
        THEN [raised |-> "none", errors |-> <<>>,
              processed_requests |-> self.processed_requests]
        ELSE IF request_id[1] \in {"dict", "list"}
        THEN [raised |-> "TypeError", errors |-> <<>>,
              processed_requests |-> self.processed_requests]
        ELSE IF request_id \in self.processed_requests
        THEN [raised |-> "none", errors |-> <<"Duplicate request ID (replay attack)">>,
              processed_requests |-> self.processed_requests]
        ELSE [raised |-> "none", errors |-> <<>>,
              processed_requests |-> {request_id}]

\* faulty variant of CheckReplay: "if request_id is not None" in place of
\* "if request_id", so the empty string is recorded and found again
CheckReplay_NotNone(self, payload) ==
    LET request_id == RequestIdOf(payload)
    IN  IF IsExc(request_id)
        THEN [raised |-> request_id[2], errors |-> <<>>,
              processed_requests |-> self.processed_requests]
        ELSE IF request_id = None
        THEN [raised |-> "none", errors |-> <<>>,
              processed_requests |-> self.processed_requests]
        ELSE IF request_id[1] \in {"dict", "list"}
        THEN [raised |-> "TypeError", errors |-> <<>>,
              processed_requests |-> self.processed_requests]
        ELSE IF request_id \in self.processed_requests
        THEN [raised |-> "none", errors |-> <<"Duplicate request ID (replay attack)">>,
              processed_requests |-> self.processed_requests]
        ELSE [raised |-> "none", errors |-> <<>>,
              processed_requests |-> self.processed_requests \cup {request_id}]

\* the replay check: the errors it appends and the replay set it leaves
CheckReplay(self, payload) ==
    LET request_id == RequestIdOf(payload)
    IN  IF IsExc(request_id)
        THEN [raised |-> request_id[2], errors |-> <<>>,
              processed_requests |-> self.processed_requests]
        ELSE IF ~Truthy(request_id)
        THEN [raised |-> "none", errors |-> <<>>,
              processed_requests |-> self.processed_requests]
        ELSE IF request_id[1] \in {"dict", "list"}      \* unhashable
        THEN [raised |-> "TypeError", errors |-> <<>>,
              processed_requests |-> self.processed_requests]
        ELSE IF request_id \in self.processed_requests
        THEN [raised |-> "none", errors |-> <<"Duplicate request ID (replay attack)">>,
              processed_requests |-> self.processed_requests]
        ELSE [raised |-> "none", errors |-> <<>>,
              processed_requests |-> self.processed_requests \cup {request_id}]

\* faulty variant of Validator_generate_signature: the digest is written in
\* hexadecimal
Validator_generate_signature_Hex(self, payload) ==
    LET payload_bytes == dumps(Map(payload))
    IN  <<SHA_PREFIX, "hex:" \o hmac_sha256(self.secret_key, payload_bytes)>>

\* WebhookValidator._generate_signature(payload)
Validator_generate_signature(self, payload) ==
    LET payload_bytes == dumps(Map(payload))
    IN  <<SHA_PREFIX, b64encode(hmac_sha256(self.secret_key, payload_bytes))>>

\* faulty variant of StripPrefix: only a leading "sha256=" is removed
StripPrefix_LeadingOnly(sig) ==
    IF sig # <<>> /\ Head(sig) = SHA_PREFIX THEN Tail(sig) ELSE sig

\* s.replace("sha256=", "") on a str held as pieces: the pieces are cut so
\* that the occurrences of "sha256=" in the str are the pieces equal to it
StripPrefix(sig) == SelectSeq(sig, LAMBDA piece : piece # SHA_PREFIX)

\* the str that the pieces make up
RECURSIVE StrOf(_)
StrOf(pieces) == IF pieces = <<>> THEN "" ELSE Head(pieces) \o StrOf(Tail(pieces))

\* hmac.compare_digest(a, b): equality of the two strs
compare_digest(a, b) == StrOf(a) = StrOf(b)

\* faulty variant of verify_signature: the signature field is not removed
\* before the expected signature is computed
verify_signature_KeepsField(self, payload, received_signature) ==
    compare_digest(StripPrefix(Validator_generate_signature(self, payload)),
                   StripPrefix(received_signature))

\* faulty variant of verify_signature_objects: payload_copy is the caller's
\* dict itself, so the pop takes the signature field out of it
verify_signature_objects_Shared(payload) ==
    [payload |-> Pop(payload, "signature"), payload_copy |-> Pop(payload, "signature")]

\* the two dicts of _verify_signature when it returns: payload.copy() makes
\* payload_copy a dict of its own, and the pop acts on that one
verify_signature_objects(payload) ==
    [payload |-> payload, payload_copy |-> Pop(payload, "signature")]

\* _verify_signature(payload, received_signature)
verify_signature(self, payload, received_signature) ==
    LET payload_copy == verify_signature_objects(payload).payload_copy
        expected_signature == Validator_generate_signature(self, payload_copy)
        received_sig == StripPrefix(received_signature)
        expected_sig == StripPrefix(expected_signature)
    IN  compare_digest(expected_sig, received_sig)

\* faulty variant of validate_payload: the signature is checked first and its
\* error heads the list
validate_payload_SignatureFirst(self, payload, received_signature, clock) ==
    LET e0 == IF verify_signature(self, payload, received_signature) THEN <<>>
              ELSE <<"Invalid signature">>
        e1 == e0 \o MissingFields(payload)
        ts == CheckTimestamp(payload, clock)
        e2 == e1 \o ts.errors
        rp == CheckReplay(self, payload)
        e3 == e2 \o rp.errors
    IN  IF ts.raised # "none" THEN Raise(ts.raised, e1, self.processed_requests)
        ELSE IF rp.raised # "none" THEN Raise(rp.raised, e2, self.processed_requests)
        ELSE Return(e3, rp.processed_requests)

\* validate_payload(payload, received_signature) at clock reading `clock`
validate_payload(self, payload, received_signature, clock) ==
    LET e1 == MissingFields(payload)
        ts == CheckTimestamp(payload, clock)
        e2 == e1 \o ts.errors
        rp == CheckReplay(self, payload)
        e3 == e2 \o rp.errors
        e4 == IF verify_signature(self, payload, received_signature) THEN e3
              ELSE Append(e3, "Invalid signature")
    IN  IF ts.raised # "none" THEN Raise(ts.raised, e1, self.processed_requests)
        ELSE IF rp.raised # "none" THEN Raise(rp.raised, e2, self.processed_requests)
        ELSE Return(e4, rp.processed_requests)

\* the caller's payload after the call: only _verify_signature handles it
\* other than by reading, and a call that raises does not get there
validate_payload_leaves(self, payload, received_signature, clock) ==
    IF validate_payload(self, payload, received_signature, clock).raised # "none"
    THEN payload
    ELSE verify_signature_objects(payload).payload

\* "field not in payload" (line 139) for a payload that is a list: membership
\* among its elements
MissingElements(elements) ==
    LET Absent(f) == \A i \in DOMAIN elements : elements[i] # Str(f)
    IN  SelectSeq([i \in DOMAIN required_fields |->
                      IF Absent(required_fields[i])
                      THEN "Missing required field: " \o required_fields[i] ELSE ""],
                  LAMBDA e : e # "")

\* every required field reported missing: what the loop of lines 138-140 leaves
\* for a payload in which no field name is found
AllMissing == [i \in DOMAIN required_fields |-> "Missing required field: " \o required_fields[i]]

\* validate_payload(payload, received_signature) for a payload of any Python
\* type. The method has no check of the payload's type: a dict takes the
\* path of validate_payload above; None and numbers fail at "field not in
\* payload" (line 139); a list or a str passes the loop and fails at
\* payload["timestamp"] (line 145, a list that holds "timestamp") or at
\* payload.get (line 153). A str is searched for the field names as
\* substrings; the str payloads of the model hold none of them.
validate_envelope(self, payload, received_signature, clock) ==
    CASE payload[1] = "dict" ->
            validate_payload(self, payload[2], received_signature, clock)
      [] payload[1] \in {"None", "int", "float"} ->
            Raise("TypeError", <<>>, self.processed_requests)
      [] payload[1] = "list" ->
            IF \E i \in DOMAIN payload[2] : payload[2][i] = Str("timestamp")
            THEN Raise("TypeError", MissingElements(payload[2]), self.processed_requests)
            ELSE Raise("AttributeError", MissingElements(payload[2]), self.processed_requests)
      [] payload[1] = "str" ->
            Raise("AttributeError", AllMissing, self.processed_requests)

-----------------------------------------------------------------------------
(* Inputs of the model                                                     *)

Secrets    == {"k1", "k2"}
EventTypes == {"incident_detected"}
Profiles   == {"minimal", "standard", "detailed"}
Priorities == {"medium"}
Uuids      == {"0a1b2c3d"}

\* readings of the sender host's clock: not synchronised with the validator's
SenderInstants == {0, MaxSkew, MAX_AGE + MaxSkew}

\* the incident of the __main__ example
incident_data == Map(<<
    <<"incident_id", Str("inc_123")>>,
    <<"frame_id", Str("frame_456")>>,
    <<"confidence", Float(940)>>,
    <<"detection_details", Map(<< <<"objects", List(<< Map(<<
          <<"type", Str("person")>>,
          <<"confidence", Float(940)>>,
          <<"bounding_box", Map(<< <<"x", Float(120500)>>, <<"y", Float(45200)>>,
                                   <<"width", Float(180700)>>, <<"height", Float(155900)>> >>)>>,
          <<"attributes", Map(<< <<"age_estimate", Str("adult")>>,
                                 <<"clothing_color", Str("blue")>> >>)>> >>) >>)>> >>)>>,
    <<"debug_info", Map(<< <<"processing_time", PyInt(156)>>,
                           <<"model_version", Str("v2.1")>> >>)>> >>)

DataSamples == {incident_data}

-----------------------------------------------------------------------------
(* State                                                                   *)

NoDelivery == [payload |-> <<>>, signature |-> <<>>, signed |-> <<>>]

\* no call made since the delivery last changed
NoCall == [op |-> "none", clock |-> 0, before |-> {}, seen |-> {},
           raised |-> "none", valid |-> FALSE, errors |-> <<>>]

\* the request id an envelope carries, as a set: empty when it is missing, falsy
\* or when meta is no dict
CarriedIds(payload) ==
    LET request_id == RequestIdOf(payload)
    IN  IF IsExc(request_id) \/ ~Truthy(request_id) THEN {} ELSE {request_id}

\* the frame of one thread's validate_payload call: where it stands, its
\* validation_result["errors"], its local request_id, and how it ended
Threads == 1..MaxThreads
IdleFrame == [pc |-> "idle", errors |-> <<>>, request_id |-> None,
              raised |-> "none", valid |-> FALSE]

\* create_sample_users(): the User rows after the start of app.py, ids 1..4
sample_users == <<
    [id |-> 1, username |-> "admin",     is_admin |-> TRUE,  last_login |-> "Never"],
    [id |-> 2, username |-> "pratiksha", is_admin |-> FALSE, last_login |-> "Never"],
    [id |-> 3, username |-> "anand",     is_admin |-> FALSE, last_login |-> "Never"],
    [id |-> 4, username |-> "pallavi",   is_admin |-> FALSE, last_login |-> "Never"] >>

\* a session without keys (a client without session cookie)
NoSession == <<>>

\* no request served yet
NoResponse == [route |-> "none", status |-> 0, error |-> "", effective |-> 0,
               impersonation_info |-> FALSE]

\* no operation called on its own yet
NoDirect == [op |-> "none", arg |-> None, profile |-> "", raised |-> "none",
             out |-> <<>>, arg_after |-> None]

Init ==
    /\ builder = Builder__init__("k1")
    /\ \E k \in Secrets : validator = Validator__init__(k)
    /\ now = 0
    /\ wire = NoDelivery
    /\ last = NoCall
    /\ carried = {}
    /\ calls = [t \in Threads |-> IdleFrame]
    /\ direct = NoDirect
    /\ users = sample_users
    /\ session = NoSession
    /\ activity_log = <<>>
    /\ response = NoResponse

-----------------------------------------------------------------------------
(* The sender: builder.create_payload(...) and sending the envelope with   *)
(* its signature as the signature header                                   *)

\* payload["signature"], the value sent as the signature header
OwnSignature(p) == Get(p, "signature")[2]

Create(event_type, data, profile, priority, t, uuid8) ==
    LET p == create_payload(builder, event_type, data, profile, priority, t, uuid8, uuid8)
    IN  /\ wire = NoDelivery
        /\ p # <<>>
        /\ wire' = [payload |-> p, signature |-> OwnSignature(p), signed |-> p]
        /\ last' = NoCall
        /\ UNCHANGED <<appVars, builder, validator, now, carried, calls, direct>>

\* the sender delivers the envelope it built once more, as it built it
Resend ==
    /\ wire # NoDelivery
    /\ wire # [payload |-> wire.signed, signature |-> OwnSignature(wire.signed),
               signed |-> wire.signed]
    /\ wire' = [payload |-> wire.signed, signature |-> OwnSignature(wire.signed),
                signed |-> wire.signed]
    /\ last' = NoCall
    /\ UNCHANGED <<appVars, builder, validator, now, carried, calls, direct>>

\* time passes on the validator's host
Tick ==
    /\ \E t \in Instants : t > now /\ now' = t
    /\ last' = NoCall
    /\ UNCHANGED <<appVars, builder, validator, wire, carried, calls, direct>>

-----------------------------------------------------------------------------
(* The path between sender and receiver: a party without the secret that   *)
(* changes the delivery once before it is validated                        *)

Untouched == wire # NoDelivery /\ wire.payload = wire.signed

\* values put in place of a top-level field
FieldTampers(clock) == {
    <<"event", Str("incident_cleared")>>,
    <<"timestamp", Str(isoformat(clock) \o "Z")>>,
    <<"timestamp", Str("yesterday")>>,
    <<"timestamp", None>>,
    <<"source", Map(<<>>)>>,
    <<"data", Map(<<>>)>>,
    <<"meta", None>> }

\* values put in place of a nested field
NestedTampers == {
    <<"meta", "priority", Str("critical")>>,
    <<"meta", "request_id", Str("req_forged")>>,
    <<"meta", "request_id", Str("")>>,
    <<"meta", "request_id", None>>,
    <<"source", "version", Str("9.9.9")>>,
    <<"data", "confidence", Float(100)>> }

\* payload[k] = x
SetField(k, x) ==
    /\ Untouched
    /\ Has(wire.payload, k)
    /\ Get(wire.payload, k) # x
    /\ wire' = [wire EXCEPT !.payload = Put(wire.payload, k, x)]
    /\ last' = NoCall
    /\ UNCHANGED <<appVars, builder, validator, now, carried, calls, direct>>

\* payload[k][k2] = x
SetNested(k, k2, x) ==
    /\ Untouched
    /\ Has(wire.payload, k)
    /\ Has(Get(wire.payload, k)[2], k2)
    /\ Get(Get(wire.payload, k)[2], k2) # x
    /\ wire' = [wire EXCEPT !.payload =
                   Put(wire.payload, k, Map(Put(Get(wire.payload, k)[2], k2, x)))]
    /\ last' = NoCall
    /\ UNCHANGED <<appVars, builder, validator, now, carried, calls, direct>>

\* del payload[k]
DropField(k) ==
    /\ Untouched
    /\ Has(wire.payload, k)
    /\ wire' = [wire EXCEPT !.payload = Pop(wire.payload, k)]
    /\ last' = NoCall
    /\ UNCHANGED <<appVars, builder, validator, now, carried, calls, direct>>

\* del payload["meta"]["request_id"]
DropRequestId ==
    /\ Untouched
    /\ wire' = [wire EXCEPT !.payload =
                   Put(wire.payload, "meta", Map(Pop(Get(wire.payload, "meta")[2], "request_id")))]
    /\ last' = NoCall
    /\ UNCHANGED <<appVars, builder, validator, now, carried, calls, direct>>

\* the items i and i+1 of a dict change places (a decoder or proxy that
\* rebuilds the mapping in another key order)
Swap(d, i) == [j \in DOMAIN d |-> IF j = i THEN d[i+1] ELSE IF j = i+1 THEN d[i] ELSE d[j]]

Reorder(i) ==
    /\ Untouched
    /\ i \in 1..(Len(wire.payload) - 1)
    /\ wire' = [wire EXCEPT !.payload = Swap(wire.payload, i)]
    /\ last' = NoCall
    /\ UNCHANGED <<appVars, builder, validator, now, carried, calls, direct>>

ReorderNested(k, i) ==
    /\ Untouched
    /\ i \in 1..(Len(Get(wire.payload, k)[2]) - 1)
    /\ wire' = [wire EXCEPT !.payload = Put(wire.payload, k, Map(Swap(Get(wire.payload, k)[2], i)))]
    /\ last' = NoCall
    /\ UNCHANGED <<appVars, builder, validator, now, carried, calls, direct>>

\* the signature header is replaced
HeaderForgeries(p) == { <<SHA_PREFIX, b64encode("forged")>> }

SetHeader ==
    /\ wire # NoDelivery
    /\ wire.signature = OwnSignature(wire.signed)
    /\ \E sig \in HeaderForgeries(wire.signed) : wire' = [wire EXCEPT !.signature = sig]
    /\ last' = NoCall
    /\ UNCHANGED <<appVars, builder, validator, now, carried, calls, direct>>

-----------------------------------------------------------------------------
(* The receiver: validator.validate_payload(payload, received_signature)   *)

Validate ==
    LET r == validate_payload(validator, wire.payload, wire.signature, now)
    IN  /\ wire # NoDelivery
        /\ validator' = [validator EXCEPT !.processed_requests = r.processed_requests]
        /\ last' = [op |-> "validate", clock |-> now, before |-> validator.processed_requests,
                    seen |-> carried,
                    raised |-> r.raised, valid |-> r.valid, errors |-> r.errors]
        /\ carried' = carried \cup CarriedIds(wire.payload)
        /\ wire' = [wire EXCEPT !.payload =
                       validate_payload_leaves(validator, wire.payload, wire.signature, now)]
        /\ UNCHANGED <<appVars, builder, now, calls, direct>>

Next ==
    \/ \E e \in EventTypes, d \in DataSamples, pr \in Profiles, prio \in Priorities,
          t \in SenderInstants, u \in Uuids : Create(e, d, pr, prio, t, u)
    \/ Resend
    \/ Tick
    \/ \E kx \in FieldTampers(now) : SetField(kx[1], kx[2])
    \/ \E kx \in NestedTampers : SetNested(kx[1], kx[2], kx[3])
    \/ \E i \in 1..Len(required_fields) : DropField(required_fields[i])
    \/ DropField("signature")
    \/ DropRequestId
    \/ \E i \in 1..Len(required_fields) : Reorder(i)
    \/ \E i \in 1..2 : ReorderNested("meta", i)
    \/ SetHeader
    \/ Validate

Spec == Init /\ [][Next]_vars

-----------------------------------------------------------------------------
(* validate_payload called from several threads on one validator and the   *)
(* same delivery. The method takes no lock: another thread can run between *)
(* any two of its statements, so the call is modelled statement by         *)
(* statement around the replay set.                                        *)

\* lines 131-153: the structural and timestamp checks and the read of request_id
Begin(t) ==
    LET e1 == MissingFields(wire.payload)
        ts == CheckTimestamp(wire.payload, now)
        request_id == RequestIdOf(wire.payload)
    IN  /\ wire # NoDelivery
        /\ calls[t].pc = "idle"
        /\ calls' = [calls EXCEPT ![t] =
              IF ts.raised # "none"
              THEN [pc |-> "done", errors |-> e1, request_id |-> None,
                    raised |-> ts.raised, valid |-> FALSE]
              ELSE IF IsExc(request_id)
              THEN [pc |-> "done", errors |-> e1 \o ts.errors, request_id |-> None,
                    raised |-> request_id[2], valid |-> FALSE]
              ELSE [pc |-> "check", errors |-> e1 \o ts.errors, request_id |-> request_id,
                    raised |-> "none", valid |-> FALSE]]
        /\ UNCHANGED <<appVars, builder, validator, now, wire, last, carried, direct>>

\* lines 154-156: "if request_id: if request_id in self.processed_requests: ..."
Check(t) ==
    /\ calls[t].pc = "check"
    /\ calls' = [calls EXCEPT ![t] =
          IF ~Truthy(calls[t].request_id) THEN [@ EXCEPT !.pc = "verify"]
          ELSE IF calls[t].request_id \in validator.processed_requests
          THEN [@ EXCEPT !.pc = "verify",
                         !.errors = Append(@, "Duplicate request ID (replay attack)")]
          ELSE [@ EXCEPT !.pc = "add"]]
    /\ UNCHANGED <<appVars, builder, validator, now, wire, last, carried, direct>>

\* line 158: "self.processed_requests.add(request_id)"
Add(t) ==
    /\ calls[t].pc = "add"
    /\ validator' = [validator EXCEPT !.processed_requests = @ \cup {calls[t].request_id}]
    /\ calls' = [calls EXCEPT ![t].pc = "verify"]
    /\ UNCHANGED <<appVars, builder, now, wire, last, carried, direct>>

\* lines 160-165: the signature check and the verdict
Finish(t) ==
    LET e4 == IF verify_signature(validator, wire.payload, wire.signature)
              THEN calls[t].errors
              ELSE Append(calls[t].errors, "Invalid signature")
        r == Return(e4, validator.processed_requests)
    IN  /\ calls[t].pc = "verify"
        /\ calls' = [calls EXCEPT ![t] = [@ EXCEPT !.pc = "done", !.errors = r.errors,
                                                   !.valid = r.valid]]
        /\ UNCHANGED <<appVars, builder, validator, now, wire, last, carried, direct>>

NextThreads ==
    \/ \E e \in EventTypes, d \in DataSamples, pr \in Profiles, prio \in Priorities,
          t \in SenderInstants, u \in Uuids : Create(e, d, pr, prio, t, u)
    \/ Tick
    \/ \E t \in Threads : Begin(t)
    \/ \E t \in Threads : Check(t)
    \/ \E t \in Threads : Add(t)
    \/ \E t \in Threads : Finish(t)

SpecThreads == Init /\ [][NextThreads]_vars

-----------------------------------------------------------------------------
(* One operation called on its own, on arguments drawn from the sets below: *)
(* create_payload on data mappings of many shapes, validate_payload on     *)
(* payloads that are no dict. Each behaviour makes one such call on newly   *)
(* constructed objects.                                                    *)

MaxObjects == 2     \* length of detection_details["objects"]

\* detection objects: the person of the __main__ example, and objects at and
\* around the confidence threshold, with and without type, confidence and
\* bounding box, the box as a dict, as a list or as a tuple
DetectionObjects == {
    Map(<< <<"type", Str("person")>>, <<"confidence", Float(940)>>,
           <<"bounding_box", Map(<< <<"x", Float(120500)>>, <<"y", Float(45200)>>,
                                    <<"width", Float(180700)>>, <<"height", Float(155900)>> >>)>>,
           <<"attributes", Map(<< <<"age_estimate", Str("adult")>> >>)>> >>),
    Map(<< <<"type", Str("car")>>, <<"confidence", Float(700)>>,
           <<"bounding_box", List(<<Float(10900), Float(-20900), PyInt(30), Float(40000)>>)>> >>),
    Map(<< <<"type", Str("dog")>>, <<"confidence", Float(500)>>,
           <<"bounding_box", List(<<PyInt(1), PyInt(2), PyInt(3), PyInt(4)>>)>> >>),
    Map(<< <<"type", Str("cat")>> >>),
    Map(<< <<"type", Str("bike")>>, <<"confidence", Float(946)>>,
           <<"bounding_box", Map(<< <<"x", Float(-3700)>>, <<"width", PyInt(5)>> >>)>> >>),
    Map(<< <<"type", Str("bus")>>, <<"confidence", Float(800)>>,
           <<"bounding_box", List(<<Float(1500), Float(2500), Float(3500)>>)>> >>),
    Map(<< <<"type", Str("truck")>>, <<"confidence", Float(699)>> >>),
    Map(<< <<"type", Str("van")>>, <<"confidence", Float(880)>>,
           <<"bounding_box", Tuple(<<Float(120500), Float(45200), Float(180700), Float(155900)>>)>> >>),
    Map(<< <<"confidence", Float(900)>> >>) }

ObjectLists == UNION {[1..n -> DetectionObjects] : n \in 0..MaxObjects}

\* values of data["detection_details"]
DetailSamples ==
    {Map(<< <<"objects", List(l)>> >>) : l \in ObjectLists}
        \cup {Map(<< <<"frame_size", List(<<PyInt(640), PyInt(480)>>)>>,
                     <<"objects", List(l)>> >>) : l \in {<<>>} \cup [1..1 -> DetectionObjects]}
        \cup {Map(<< <<"frame_size", List(<<PyInt(640), PyInt(480)>>)>> >>)}

\* data mappings: two sets of top-level keys, with and without detection_details
DataShapes ==
    {Map(<< <<"incident_id", Str("inc_123")>>, <<"frame_id", Str("frame_456")>>,
            <<"confidence", Float(940)>>,
            <<"debug_info", Map(<< <<"processing_time", PyInt(156)>> >>)>> >>),
     Map(<< <<"session_id", Str("s_1")>>, <<"raw_frame_data", Str("AAAA")>>,
            <<"incident_id", Str("inc_1")>>, <<"camera_id", Str("cam_7")>>,
            <<"processing_metadata", Map(<<>>)>>, <<"confidence", PyInt(1)>> >>)}
        \cup {Map(<< <<"incident_id", Str("inc_123")>>, <<"frame_id", Str("frame_456")>>,
                     <<"confidence", Float(940)>>, <<"detection_details", details>>,
                     <<"debug_info", Map(<< <<"processing_time", PyInt(156)>> >>)>> >>)
                 : details \in DetailSamples}
        \cup {Map(<< <<"session_id", Str("s_1")>>, <<"raw_frame_data", Str("AAAA")>>,
                     <<"detection_details", details>>, <<"camera_id", Str("cam_7")>>,
                     <<"processing_metadata", Map(<<>>)>> >>)
                 : details \in DetailSamples}

\* payloads that are no dict
MalformedEnvelopes ==
    {None, PyInt(42), Str("not json"), List(<<>>),
     List(<<Str("event"), Str("timestamp")>>)}

\* builder.create_payload("incident_detected", data, profile): what it returns
\* (<<>> when it raised) and the caller's data as the call leaves it
CallCreate(data, profile) ==
    LET r == optimize_objects(data, profile)
        p == create_payload(builder, "incident_detected", data, profile, "medium",
                            0, "0a1b2c3d", "0a1b2c3d")
    IN  /\ direct = NoDirect
        /\ direct' = [op |-> "create_payload", arg |-> data, profile |-> profile,
                      raised |-> r.raised, out |-> p, arg_after |-> r.objects.data]
        /\ last' = NoCall
        /\ UNCHANGED <<appVars, builder, validator, now, wire, carried, calls>>

\* validator.validate_payload(payload, received_signature), payload of any type
CallValidate(payload) ==
    LET r == validate_envelope(validator, payload, <<SHA_PREFIX, b64encode("any")>>, now)
    IN  /\ direct = NoDirect
        /\ direct' = [op |-> "validate_payload", arg |-> payload, profile |-> "",
                      raised |-> r.raised, out |-> <<>>, arg_after |-> payload]
        /\ validator' = [validator EXCEPT !.processed_requests = r.processed_requests]
        /\ last' = [op |-> "validate_envelope", clock |-> now,
                    before |-> validator.processed_requests, seen |-> carried,
                    raised |-> r.raised, valid |-> r.valid, errors |-> r.errors]
        /\ UNCHANGED <<appVars, builder, now, wire, carried, calls>>

\* profile strings that are none of the three names
UnknownProfiles == {"", "Minimal", "standrad", "full"}

NextCalls ==
    \/ \E d \in DataShapes, pr \in Profiles \cup UnknownProfiles : CallCreate(d, pr)
    \/ \E x \in MalformedEnvelopes : CallValidate(x)

SpecCalls == Init /\ [][NextCalls]_vars

-----------------------------------------------------------------------------
(* src/task_7/app.py: login by session and impersonation of a user by an   *)
(* administrator. One client talks to the app; its Flask session is a dict *)
(* (a sequence of <<key, value>> items, as above).                         *)

MaxUsers == 5       \* rows of the User table
MaxLog == 2         \* rows of the ActivityLog table

\* None, where a User row is expected
NoRow == [id |-> 0, username |-> "", is_admin |-> FALSE, last_login |-> "Never"]

\* User.query.get(id)
User_query_get(db, id) == IF id \in DOMAIN db THEN db[id] ELSE NoRow

\* User.query.filter_by(username=username).first()
User_query_filter_by(db, username) ==
    IF \E i \in DOMAIN db : db[i].username = username
    THEN db[CHOOSE i \in DOMAIN db : db[i].username = username]
    ELSE NoRow

\* ActivityLog(admin_user_id=..., impersonated_user_id=..., action=...)
ActivityLog(admin_user_id, impersonated_user_id, action) ==
    [admin_user_id |-> admin_user_id, impersonated_user_id |-> impersonated_user_id,
     action |-> action]

\* jsonify({'error': error}), status  /  jsonify({...}) with status 200
Respond(route, status, error) ==
    [route |-> route, status |-> status, error |-> error, effective |-> 0,
     impersonation_info |-> FALSE]

\* what a request leaves: the session, the ActivityLog rows and the response
Served(s, log, resp) == [session |-> s, activity_log |-> log, response |-> resp]

is_logged_in(s) == Has(s, "user_id")

\* faulty variant of is_admin: any logged-in user counts as administrator
is_admin_AnyUser(s, db) == is_logged_in(s)

is_admin(s, db) ==
    /\ is_logged_in(s)
    /\ User_query_get(db, Get(s, "user_id")) # NoRow
    /\ User_query_get(db, Get(s, "user_id")).is_admin

get_current_user(s, db) ==
    IF ~is_logged_in(s) THEN NoRow ELSE User_query_get(db, Get(s, "user_id"))

get_effective_user(s, db) ==
    IF Has(s, "impersonated_user_id")
    THEN User_query_get(db, Get(s, "impersonated_user_id"))
    ELSE get_current_user(s, db)

\* POST /login with a JSON body: the session it leaves and the response
\* (the row's last_login is set by the action)
login(s, db, log, username, password_ok) ==
    IF User_query_filter_by(db, username) = NoRow \/ ~password_ok
    THEN Served(s, log, Respond("login", 401, "Invalid username or password"))
    ELSE Served(Put(s, "user_id", User_query_filter_by(db, username).id), log,
                Respond("login", 200, ""))

\* faulty variant of logout: impersonated_user_id stays in the session
logout_KeepsImpersonation(s, db, log) ==
    IF ~is_logged_in(s) THEN Served(s, log, Respond("logout", 401, "Not logged in"))
    ELSE Served(Pop(s, "user_id"), log, Respond("logout", 200, ""))

\* POST /logout
logout(s, db, log) ==
    IF ~is_logged_in(s) THEN Served(s, log, Respond("logout", 401, "Not logged in"))
    ELSE Served(Pop(Pop(s, "impersonated_user_id"), "user_id"), log,
                Respond("logout", 200, ""))

\* POST /impersonate with the JSON body `data`
start_impersonation(s, db, log, data) ==
    IF ~is_admin(s, db)
    THEN Served(s, log, Respond("impersonate", 403, "Admin access required"))
    ELSE IF GetOr(data, "user_id", 0) = 0
    THEN Served(s, log, Respond("impersonate", 400, "user_id required"))
    ELSE IF User_query_get(db, Get(data, "user_id")) = NoRow
    THEN Served(s, log, Respond("impersonate", 404, "User not found"))
    ELSE IF User_query_get(db, Get(data, "user_id")).is_admin
    THEN Served(s, log, Respond("impersonate", 403, "Cannot impersonate other administrators"))
    ELSE IF User_query_get(db, Get(data, "user_id")).id = get_current_user(s, db).id
    THEN Served(s, log, Respond("impersonate", 400, "Cannot impersonate yourself"))
    ELSE Served(Put(s, "impersonated_user_id", User_query_get(db, Get(data, "user_id")).id),
                Append(log, ActivityLog(get_current_user(s, db).id,
                                        User_query_get(db, Get(data, "user_id")).id,
                                        "start_impersonation")),
                Respond("impersonate", 200, ""))

\* faulty variant of stop_impersonation: the log row is written, the session
\* keeps impersonated_user_id
stop_impersonation_KeepsSession(s, db, log) ==
    IF ~is_logged_in(s)
    THEN Served(s, log, Respond("stop-impersonation", 401, "Not logged in"))
    ELSE IF ~Has(s, "impersonated_user_id")
    THEN Served(s, log, Respond("stop-impersonation", 400, "Not currently impersonating anyone"))
    ELSE Served(s,
                Append(log, ActivityLog(get_current_user(s, db).id,
                                        User_query_get(db, Get(s, "impersonated_user_id")).id,
                                        "end_impersonation")),
                Respond("stop-impersonation", 200, ""))

\* POST /stop-impersonation
stop_impersonation(s, db, log) ==
    IF ~is_logged_in(s)
    THEN Served(s, log, Respond("stop-impersonation", 401, "Not logged in"))
    ELSE IF ~Has(s, "impersonated_user_id")
    THEN Served(s, log, Respond("stop-impersonation", 400, "Not currently impersonating anyone"))
    ELSE Served(Pop(s, "impersonated_user_id"),
                Append(log, ActivityLog(get_current_user(s, db).id,
                                        User_query_get(db, Get(s, "impersonated_user_id")).id,
                                        "end_impersonation")),
                Respond("stop-impersonation", 200, ""))

\* GET /dashboard: user_info.id and whether impersonation_info is in the body
dashboard(s, db, log) ==
    IF ~is_logged_in(s) THEN Served(s, log, Respond("dashboard", 401, "Login required"))
    ELSE Served(s, log,
                [route |-> "dashboard", status |-> 200, error |-> "",
                 effective |-> get_effective_user(s, db).id,
                 impersonation_info |->
                     get_effective_user(s, db).id # get_current_user(s, db).id])

\* the requests of the model
LoginNames == {"admin", "pratiksha", "root2", "nobody"}
Registrations == {<<"root2", TRUE>>, <<"admin", FALSE>>}
ImpersonateBodies == {<<>>} \cup {<< <<"user_id", k>> >> : k \in 0..(MaxUsers + 1)}

\* the app serves a request: the session cookie and the tables take what the
\* handler left
Serve(r) ==
    /\ Len(r.activity_log) <= MaxLog
    /\ session' = r.session
    /\ activity_log' = r.activity_log
    /\ response' = r.response

\* POST /register with a JSON body (the email goes with the username)
Register(username, admin) ==
    /\ Len(users) < MaxUsers
    /\ IF User_query_filter_by(users, username) # NoRow
       THEN /\ response' = Respond("register", 400, "Username already exists")
            /\ users' = users
       ELSE /\ response' = Respond("register", 200, "")
            /\ users' = Append(users, [id |-> Len(users) + 1, username |-> username,
                                       is_admin |-> admin, last_login |-> "Never"])
    /\ UNCHANGED <<hookVars, session, activity_log>>

Login(username, password_ok) ==
    /\ Serve(login(session, users, activity_log, username, password_ok))
    /\ users' = IF User_query_filter_by(users, username) = NoRow \/ ~password_ok THEN users
                ELSE [users EXCEPT ![User_query_filter_by(users, username).id].last_login = "set"]
    /\ UNCHANGED hookVars

Logout ==
    /\ Serve(logout(session, users, activity_log))
    /\ UNCHANGED <<hookVars, users>>

StartImpersonation(data) ==
    /\ Serve(start_impersonation(session, users, activity_log, data))
    /\ UNCHANGED <<hookVars, users>>

StopImpersonation ==
    /\ Serve(stop_impersonation(session, users, activity_log))
    /\ UNCHANGED <<hookVars, users>>

Dashboard ==
    /\ Serve(dashboard(session, users, activity_log))
    /\ UNCHANGED <<hookVars, users>>

NextApp ==
    \/ \E reg \in Registrations : Register(reg[1], reg[2])
    \/ \E name \in LoginNames, password_ok \in BOOLEAN : Login(name, password_ok)
    \/ Logout
    \/ \E data \in ImpersonateBodies : StartImpersonation(data)
    \/ StopImpersonation
    \/ Dashboard

SpecApp == Init /\ [][NextApp]_vars

-----------------------------------------------------------------------------
(* A sender that holds the secret and assembles the envelope by hand: the  *)
(* fields of create_payload with a meta.request_id of its own choosing,    *)
(* signed with _generate_signature                                         *)

\* what the sender does with meta.request_id
RequestIdChoices == {"generated", "missing", "None", "empty"}

WithRequestId(meta, choice) ==
    CASE choice = "generated" -> meta
      [] choice = "missing"   -> Pop(meta, "request_id")
      [] choice = "None"      -> Put(meta, "request_id", None)
      [] choice = "empty"     -> Put(meta, "request_id", Str(""))

\* payload["signature"] = self._generate_signature(payload)
Signed(self, base_payload) ==
    Put(base_payload, "signature", Text(Builder_generate_signature(self, base_payload)))

HandMade(self, choice, t, uuid8) ==
    LET p == create_payload(self, "incident_detected", incident_data, "minimal",
                            "medium", t, uuid8, uuid8)
    IN  Signed(self, Put(Pop(p, "signature"), "meta",
                         Map(WithRequestId(Get(p, "meta")[2], choice))))

SendSigned(choice, t, uuid8) ==
    LET p == HandMade(builder, choice, t, uuid8)
    IN  /\ wire = NoDelivery \/ last # NoCall     \* the last delivery was answered
        /\ wire # [payload |-> p, signature |-> OwnSignature(p), signed |-> p]
        /\ wire' = [payload |-> p, signature |-> OwnSignature(p), signed |-> p]
        /\ last' = NoCall
        /\ UNCHANGED <<appVars, builder, validator, now, carried, calls, direct>>

\* the ways the sender, or a party on the path, writes the signature header
\* of an envelope whose signature is "sha256=" + D, D = "b64:" + h
HeaderForms == {"bare", "doubled", "trailing", "inside", "nested", "prefix",
                "empty", "forged"}

HeaderIn(form, D, h) ==
    CASE form = "bare"     -> <<D>>
      [] form = "doubled"  -> <<SHA_PREFIX, SHA_PREFIX, D>>
      [] form = "trailing" -> <<D, SHA_PREFIX>>
      [] form = "inside"   -> <<"b64:", SHA_PREFIX, h>>
      [] form = "nested"   -> <<"sha", SHA_PREFIX, "256=", D>>
      [] form = "prefix"   -> <<SHA_PREFIX>>
      [] form = "empty"    -> <<>>
      [] form = "forged"   -> <<SHA_PREFIX, b64encode("forged")>>

WriteHeader(form) ==
    /\ wire # NoDelivery
    /\ wire.signature = OwnSignature(wire.signed)
    /\ wire' = [wire EXCEPT !.signature =
                   HeaderIn(form, OwnSignature(wire.signed)[2],
                            hmac_sha256(builder.secret_key,
                                        dumps(Map(Pop(wire.signed, "signature")))))]
    /\ last' = NoCall
    /\ UNCHANGED <<appVars, builder, validator, now, carried, calls, direct>>

\* values put in place of the envelope's signature field
SignatureFields == {Str("junk"), None, Text(<<SHA_PREFIX, b64encode("forged")>>)}

NextSigned ==
    \/ \E choice \in RequestIdChoices, u \in Uuids : SendSigned(choice, 0, u)
    \/ \E form \in HeaderForms : WriteHeader(form)
    \/ DropField("signature")
    \/ \E x \in SignatureFields : SetField("signature", x)
    \/ Tick
    \/ Validate

SpecSigned == Init /\ [][NextSigned]_vars

-----------------------------------------------------------------------------
(* Vocabulary of the properties                                            *)

Called   == last.op = "validate"             \* the last step was a validate_payload call
Returned == Called /\ last.raised = "none"   \* ... and it returned a verdict
InErrors(reason) == \E i \in DOMAIN last.errors : last.errors[i] = reason
\* what the caller is told: the error list of the verdict, nothing when the call raised
Reported(reason) == Returned /\ InErrors(reason)

SameSecret == validator.secret_key = builder.secret_key
OwnHeader  == wire.signature = OwnSignature(wire.signed)
\* the delivery is the envelope as create_payload returned it, with its own signature
AsBuilt    == wire # NoDelivery /\ wire.payload = wire.signed /\ OwnHeader

HasTimestamp == /\ Has(wire.payload, "timestamp")
                /\ Get(wire.payload, "timestamp")[1] = "str"
                /\ Parsable(Get(wire.payload, "timestamp")[2])
\* validation time minus envelope timestamp, in seconds
Age == last.clock - fromisoformat(Get(wire.payload, "timestamp")[2])

Unseen   == CarriedIds(wire.payload) # {} /\ CarriedIds(wire.payload) \cap last.seen = {}
Repeated == CarriedIds(wire.payload) \cap last.seen # {}

\* the envelope differs from the signed one in the value of exactly one of its
\* fields (a change inside source, data or meta changes that field)
OneFieldChanged ==
    /\ wire # NoDelivery
    /\ Len(wire.payload) = Len(wire.signed)
    /\ \A i \in DOMAIN wire.payload : wire.payload[i][1] = wire.signed[i][1]
    /\ Cardinality({i \in DOMAIN wire.payload : wire.payload[i][2] # wire.signed[i][2]}) = 1
    /\ Get(wire.payload, "signature") = Get(wire.signed, "signature")

\* a value without its insertion orders: a dict as the set of its items
RECURSIVE Content(_)
Content(x) ==
    CASE x[1] = "dict" -> <<"dict", {<<x[2][i][1], Content(x[2][i][2])>> : i \in DOMAIN x[2]}>>
      [] x[1] = "list" -> <<"list", [i \in DOMAIN x[2] |-> Content(x[2][i])]>>
      [] OTHER -> x

\* same keys and values at every level, other insertion order somewhere
Reordered ==
    /\ wire # NoDelivery
    /\ wire.payload # wire.signed
    /\ Content(Map(wire.payload)) = Content(Map(wire.signed))

-----------------------------------------------------------------------------
(* C1: signature round-trip                                                *)

\* C1 (as claimed): an envelope returned by create_payload, validated with its
\* own signature by a validator with the same secret that has not seen its
\* request id, is valid with an empty error list.
C1_RoundTripValid ==
    (Called /\ AsBuilt /\ SameSecret /\ Unseen)
        => (Returned /\ last.valid /\ last.errors = <<>>)

\* C1 (amended): the same, for an envelope whose timestamp is at most 300
\* seconds behind the validator's clock when it is validated.
C1_RoundTripValidWhenFresh ==
    (Called /\ AsBuilt /\ SameSecret /\ Unseen /\ Age <= MAX_AGE)
        => (Returned /\ last.valid /\ last.errors = <<>>)

C1_Witness ==
    /\ Called /\ AsBuilt /\ SameSecret /\ Unseen /\ Age = MAX_AGE
    /\ Returned /\ last.valid
    /\ Len(Get(wire.payload, "data")[2]) = 3     \* the minimal profile's data

-----------------------------------------------------------------------------
(* C2: tamper detection                                                    *)

\* C2: when one field of a validly signed envelope is changed and the envelope
\* is validated with the original signature, the error list holds
\* "Invalid signature".
C2_TamperReported ==
    (Called /\ SameSecret /\ OneFieldChanged /\ OwnHeader)
        => Reported("Invalid signature")

-----------------------------------------------------------------------------
(* C3: replay rejection                                                    *)

\* C3: a call that returns a verdict on an envelope whose request id was
\* carried by the envelope of an earlier call reports the duplicate and is
\* invalid, however the earlier call ended.
C3_ReplayReported ==
    (Returned /\ Repeated)
        => (InErrors("Duplicate request ID (replay attack)") /\ ~last.valid)

-----------------------------------------------------------------------------
(* C4: atomic replay check under concurrency                               *)

\* a thread's call is past the replay check without having found a duplicate
PassedReplay(t) ==
    /\ calls[t].pc \in {"add", "verify", "done"}
    /\ calls[t].raised = "none"
    /\ Truthy(calls[t].request_id)
    /\ \A i \in DOMAIN calls[t].errors :
          calls[t].errors[i] # "Duplicate request ID (replay attack)"

\* C4: of the concurrent calls on envelopes with the same request id, at most
\* one passes the replay check.
C4_OnePassesReplay ==
    \A t1, t2 \in Threads :
        (t1 # t2 /\ PassedReplay(t1) /\ PassedReplay(t2))
            => calls[t1].request_id # calls[t2].request_id

-----------------------------------------------------------------------------
(* C5: canonical serialization                                             *)

\* C5: an envelope whose keys were reordered in transit, same content, still
\* verifies against the signature the builder computed.
C5_ReorderedVerifies ==
    (Called /\ SameSecret /\ Reordered /\ OwnHeader)
        => (Returned /\ ~InErrors("Invalid signature"))

-----------------------------------------------------------------------------
(* C6: non-short-circuit accumulation                                      *)

\* C6: every call reports the reason of each failure condition the envelope
\* exhibits: each missing field, the unparsable or stale timestamp, the
\* repeated request id, the wrong signature.
C6_EveryReasonReported ==
    Called =>
        /\ \A i \in DOMAIN required_fields :
              ~Has(wire.payload, required_fields[i])
                  => Reported("Missing required field: " \o required_fields[i])
        /\ (Has(wire.payload, "timestamp") /\ ~HasTimestamp)
              => Reported("Invalid timestamp format")
        /\ (HasTimestamp /\ Age > MAX_AGE) => Reported("Timestamp too old")
        /\ (CarriedIds(wire.payload) \cap last.before # {})
              => Reported("Duplicate request ID (replay attack)")
        /\ ~verify_signature(validator, wire.payload, wire.signature)
              => Reported("Invalid signature")

-----------------------------------------------------------------------------
(* C7: valid iff no errors                                                 *)

\* C7: in every verdict returned, valid is true exactly when the error list
\* is empty.
C7_ValidIffNoErrors ==
    Returned => (last.valid <=> last.errors = <<>>)

C7_Witness == Returned /\ last.valid /\ last.errors = <<>>

-----------------------------------------------------------------------------
(* C8: freshness boundary                                                  *)

\* C8: for an envelope with a readable timestamp, the freshness check records
\* "Timestamp too old" exactly when the age exceeds 300 seconds: 299 and 300
\* pass, 301 fails.
C8_TooOldIffOver300 ==
    (Called /\ HasTimestamp) =>
        /\ InErrors("Timestamp too old") <=> Age > MAX_AGE
        /\ Age \in {MAX_AGE - 1, MAX_AGE} => ~InErrors("Timestamp too old")
        /\ Age = MAX_AGE + 1 => InErrors("Timestamp too old")

C8_Witness ==
    Returned /\ HasTimestamp /\ Age = MAX_AGE /\ ~InErrors("Timestamp too old")

-----------------------------------------------------------------------------
(* C9: no lower freshness bound                                            *)

\* C9: an envelope whose timestamp lies in the future of the validation time
\* gets no freshness error, and when it is as built, signed with the
\* validator's secret and its request id unseen, it is accepted.
C9_FutureAccepted ==
    (Called /\ HasTimestamp /\ Age < 0) =>
        /\ ~InErrors("Timestamp too old")
        /\ ~InErrors("Invalid timestamp format")
        /\ (AsBuilt /\ SameSecret /\ Unseen) => (Returned /\ last.valid)

C9_Witness ==
    /\ Called /\ HasTimestamp /\ Age < -MAX_AGE
    /\ AsBuilt /\ SameSecret /\ Unseen /\ last.valid

-----------------------------------------------------------------------------
(* C10: no exception for a mapping-shaped envelope                         *)

\* C10: every validate_payload call on a mapping returns a verdict.
C10_NeverRaises == Called => last.raised = "none"


-----------------------------------------------------------------------------
(* C11: a payload that is no mapping                                       *)

\* the direct call just made was validate_payload on a payload that is no dict
CalledMalformed == last.op = "validate_envelope" /\ direct.arg[1] # "dict"

\* C11: when the payload passed to validate_payload is no mapping, the call
\* ends with an error of its own kind (not a verdict, and not one of the
\* exceptions the per-field checks raise on a mapping), before any per-field
\* check has written to the error list, and the replay set is as before.
C11_MalformedFailsFast ==
    CalledMalformed =>
        /\ last.raised \notin {"none", "AttributeError", "TypeError"}
        /\ last.errors = <<>>
        /\ validator.processed_requests = last.before

-----------------------------------------------------------------------------
(* C12: the minimal profile                                                *)

\* the direct call just made was create_payload with this profile, and it
\* returned an envelope
Created(profile) ==
    direct.op = "create_payload" /\ direct.profile = profile /\ direct.out # <<>>
DataIn  == direct.arg[2]                 \* the items of the data passed in
DataOut == Get(direct.out, "data")[2]    \* the items of envelope["data"]

\* C12: the data field of an envelope created with profile "minimal" has
\* exactly the keys of the input that are among incident_id, frame_id,
\* confidence and session_id, each once and with the input's value; any
\* other key, such as debug_info, is absent.
C12_MinimalIsAllowList ==
    Created("minimal") =>
        /\ Keys(DataOut) = Keys(DataIn) \cap {"incident_id", "frame_id", "confidence", "session_id"}
        /\ Len(DataOut) = Cardinality(Keys(DataOut))
        /\ \A k \in Keys(DataOut) : Get(DataOut, k) = Get(DataIn, k)
        /\ "debug_info" \notin Keys(DataOut)

C12_Witness ==
    /\ Created("minimal")
    /\ {"debug_info", "detection_details"} \subseteq Keys(DataIn)
    /\ Keys(DataOut) = {"incident_id", "frame_id", "confidence"}

-----------------------------------------------------------------------------
(* C13: the standard profile, filtering                                    *)

\* the data passed in has detection_details with an objects list
HasObjects ==
    /\ Has(DataIn, "detection_details")
    /\ Has(Get(DataIn, "detection_details")[2], "objects")
ObjectsIn  == Get(Get(DataIn, "detection_details")[2], "objects")[2]
ObjectsOut == Get(Get(DataOut, "detection_details")[2], "objects")[2]

\* the object has a confidence of at least 0.70
Confident(obj) ==
    Has(obj[2], "confidence") /\ Thousandths(Get(obj[2], "confidence")) >= 700

\* r is c rounded to 2 decimals: a whole number of hundredths, at most half a
\* hundredth away from c
RoundedTo2(c, r) ==
    IF c[1] = "int" THEN r = c
    ELSE /\ r[1] = "float"
         /\ r[2] % 10 = 0
         /\ r[2] - c[2] \in -5..5

\* C13: the data of an envelope created with profile "standard" has the
\* top-level keys of the input except debug_info, raw_frame_data and
\* processing_metadata, with the input's values outside detection_details;
\* when detection_details.objects is present, the output objects list has,
\* in input order, one entry for each input object with confidence >= 0.70
\* and for no other, each with the input's type and, under conf, its
\* confidence rounded to 2 decimals.
C13_StandardFilters ==
    Created("standard") =>
        /\ Keys(DataOut) = Keys(DataIn) \ {"debug_info", "raw_frame_data", "processing_metadata"}
        /\ Len(DataOut) = Cardinality(Keys(DataOut))
        /\ \A k \in Keys(DataOut) \ {"detection_details"} : Get(DataOut, k) = Get(DataIn, k)
        /\ HasObjects =>
              LET kept == SelectSeq(ObjectsIn, Confident)
              IN  /\ Len(ObjectsOut) = Len(kept)
                  /\ \A i \in DOMAIN kept :
                        /\ Get(ObjectsOut[i][2], "type") = Get(kept[i][2], "type")
                        /\ RoundedTo2(Get(kept[i][2], "confidence"),
                                      Get(ObjectsOut[i][2], "conf"))

\* an object with confidence exactly 0.70 is kept, the one with 0.5 after it
\* is dropped, and debug_info is gone
C13_Witness ==
    /\ Created("standard") /\ HasObjects
    /\ Has(DataIn, "debug_info") /\ ~Has(DataOut, "debug_info")
    /\ Len(ObjectsIn) = 2
    /\ GetOr(ObjectsIn[1][2], "confidence", None) = Float(700)
    /\ GetOr(ObjectsIn[2][2], "confidence", None) = Float(500)
    /\ Len(ObjectsOut) = 1
    /\ Get(ObjectsOut[1][2], "conf") = Float(700)

-----------------------------------------------------------------------------
(* C14: the standard profile, bounding boxes                               *)

\* the object has a bounding box, given as a mapping or as a plain sequence
Boxed(obj) ==
    /\ Has(obj[2], "bounding_box")
    /\ Get(obj[2], "bounding_box")[1] \in {"dict", "list", "tuple"}

\* the j-th of the numbers x, y, width, height of a bounding box
BoxNumber(box, j) ==
    IF box[1] = "dict" THEN GetOr(box[2], <<"x", "y", "width", "height">>[j], PyInt(0))
    ELSE IF j \in DOMAIN box[2] THEN box[2][j] ELSE PyInt(0)

\* n is the number v cut off toward zero
Truncated(v, n) ==
    /\ n[1] = "int"
    /\ Thousandths(v) >= 0 => (n[2] * 1000 <= Thousandths(v) /\ Thousandths(v) < n[2] * 1000 + 1000)
    /\ Thousandths(v) < 0  => (n[2] * 1000 >= Thousandths(v) /\ Thousandths(v) > n[2] * 1000 - 1000)

\* C14: under profile "standard" every kept object that has a bounding box,
\* as a mapping or as a plain sequence, has in the output a bbox that is a
\* list of exactly 4 integers, the numbers x, y, width, height of the input
\* cut off toward zero.
C14_BboxFourIntegers ==
    (Created("standard") /\ HasObjects) =>
        LET kept == SelectSeq(ObjectsIn, Confident)
        IN  \A i \in DOMAIN kept : Boxed(kept[i]) =>
                /\ Has(ObjectsOut[i][2], "bbox")
                /\ Get(ObjectsOut[i][2], "bbox")[1] = "list"
                /\ Len(Get(ObjectsOut[i][2], "bbox")[2]) = 4
                /\ \A j \in 1..4 :
                      Truncated(BoxNumber(Get(kept[i][2], "bounding_box"), j),
                                Get(ObjectsOut[i][2], "bbox")[2][j])

-----------------------------------------------------------------------------
(* C15: the detailed profile                                               *)

\* C15: the data field of an envelope created with profile "detailed" is
\* the data passed in: the same keys in the same order with the same values
\* at every level.
C15_DetailedIsInput ==
    Created("detailed") => Get(direct.out, "data") = direct.arg

\* data that the other profiles reduce: debug_info at the top, an object under
\* the threshold and a bounding box among the objects
C15_Witness ==
    /\ Created("detailed") /\ HasObjects
    /\ Has(DataIn, "debug_info") /\ Has(DataOut, "debug_info")
    /\ Len(ObjectsIn) = 2
    /\ ~Confident(ObjectsIn[1]) /\ Boxed(ObjectsIn[2])
    /\ ObjectsOut = ObjectsIn

-----------------------------------------------------------------------------
(* C16: create_payload leaves its arguments as they were                   *)

\* C16: after create_payload, whatever the profile and whether it returned
\* or raised, the caller's data dict holds what it held before the call, and
\* the builder's secret_key, system_name and version are those of its
\* construction.
C16_CallerDataUnchanged ==
    direct.op = "create_payload" =>
        /\ direct.arg_after = direct.arg
        /\ builder = Builder__init__("k1")

\* a standard-profile call whose envelope carries reduced data
C16_Witness ==
    /\ Created("standard") /\ HasObjects
    /\ Has(DataIn, "debug_info")
    /\ Len(ObjectsIn) = 2 /\ Len(ObjectsOut) = 1
    /\ Get(direct.out, "data") # direct.arg
    /\ direct.arg_after = direct.arg

-----------------------------------------------------------------------------
(* C17: the life of the replay set                                         *)

\* C17: the replay set is empty when the validator is constructed; every
\* validate_payload call leaves in it every id it held before the call; and
\* no other step (the builder's create_payload among them) changes it.
C17_ReplaySetOnlyGrows ==
    /\ validator.processed_requests = {}
    /\ [][/\ validator.processed_requests \subseteq validator.processed_requests'
          /\ last'.op # "validate" => validator.processed_requests' = validator.processed_requests
         ]_vars

\* a call that added a second id to a replay set that held one
C17_Witness ==
    /\ Called
    /\ Cardinality(last.before) = 1
    /\ Cardinality(validator.processed_requests) = 2
    /\ last.before \subseteq validator.processed_requests

-----------------------------------------------------------------------------
(* C18: order and distinctness of the error list                           *)

\* the place of a reason string in the fixed order; 0 for any other string
Rank(reason) ==
    CASE reason = "Missing required field: event"     -> 1
      [] reason = "Missing required field: timestamp" -> 2
      [] reason = "Missing required field: source"    -> 3
      [] reason = "Missing required field: data"      -> 4
      [] reason = "Missing required field: meta"      -> 5
      [] reason \in {"Invalid timestamp format", "Timestamp too old"} -> 6
      [] reason = "Duplicate request ID (replay attack)" -> 7
      [] reason = "Invalid signature"                 -> 8
      [] OTHER -> 0

\* what each check finds wrong with the delivery, each taken on its own
StructureFails == \E f \in {"event", "timestamp", "source", "data", "meta"} : ~Has(wire.payload, f)
FreshnessFails == Has(wire.payload, "timestamp") /\ (~HasTimestamp \/ Age > 300)
ReplayFails    == CarriedIds(wire.payload) \cap last.before # {}
SignatureFails == ~verify_signature(validator, wire.payload, wire.signature)

-----------------------------------------------------------------------------
(* C19: the two _generate_signature methods                                *)

\* C19: for every secret and every envelope in flight, as built or changed
\* on the way, the builder's _generate_signature of the envelope is the
\* validator's _generate_signature of the envelope without its signature
\* field: "sha256=" followed by the base64 of the HMAC; and the signature an
\* envelope was given by create_payload is the one a validator with the
\* builder's secret computes from it.
C19_SignerVerifierAgree ==
    wire # NoDelivery =>
        /\ \A k \in Secrets :
              /\ Builder_generate_signature(Builder__init__(k), wire.payload)
                    = Validator_generate_signature(Validator__init__(k),
                                                   Pop(wire.payload, "signature"))
              /\ Builder_generate_signature(Builder__init__(k), wire.payload)[1] = "sha256="
        /\ OwnSignature(wire.signed)
              = Validator_generate_signature(Validator__init__(builder.secret_key),
                                             Pop(wire.signed, "signature"))

\* an envelope validated as built by a validator with the builder's secret:
\* the recomputed signature matched
C19_Witness ==
    /\ Called /\ AsBuilt /\ SameSecret
    /\ ~InErrors("Invalid signature")

-----------------------------------------------------------------------------
(* C20: builder and validator with different secrets                       *)

\* C20: an envelope validated as built, with its own signature, by a
\* validator whose secret is not the builder's gets "Invalid signature" in
\* its verdict and is not valid.
C20_SecretMismatchRejected ==
    (Called /\ AsBuilt /\ ~SameSecret) =>
        /\ Reported("Invalid signature")
        /\ ~last.valid

\* a fresh, unseen envelope whose only fault is the secret
C20_Witness ==
    /\ Called /\ AsBuilt /\ ~SameSecret /\ Unseen
    /\ last.errors = <<"Invalid signature">>

-----------------------------------------------------------------------------
(* Vocabulary of the properties of app.py                                  *)

\* the session is not logged in, or its user_id is that of a non-admin user
NotAdminSession ==
    ~Has(session, "user_id") \/ ~users[Get(session, "user_id")].is_admin

\* the step serves a request of this route
Serving(route) == response'.route = route
\* the request left the session cookie and the ActivityLog table as they were
NothingChanged == session' = session /\ activity_log' = activity_log

-----------------------------------------------------------------------------
(* C21: impersonation is for administrators                                *)

\* C21: a POST /impersonate from a session that is not logged in, or whose
\* user_id is that of a non-admin user, is answered 403 "Admin access
\* required"; the session is as before (no impersonated_user_id is set) and
\* the activity log has no new row.
C21_AdminOnly ==
    [][(Serving("impersonate") /\ NotAdminSession) =>
          /\ response'.status = 403
          /\ response'.error = "Admin access required"
          /\ NothingChanged
      ]_vars

\* a logged-in non-admin user was refused
C21_Witness ==
    /\ response.route = "impersonate" /\ response.status = 403
    /\ response.error = "Admin access required"
    /\ Has(session, "user_id") /\ ~users[Get(session, "user_id")].is_admin
    /\ ~Has(session, "impersonated_user_id")
    /\ activity_log = <<>>

\* the session is logged in as an administrator
AdminSession == is_admin(session, users)

\* the user a body of POST /impersonate names (NoRow: none such)
TargetOf(data) == User_query_get(users, GetOr(data, "user_id", 0))

\* what POST /impersonate with this body would leave in the present state
Impersonating(data) == start_impersonation(session, users, activity_log, data)

Refused(r, status) ==
    /\ r.response.status = status
    /\ r.session = session
    /\ r.activity_log = activity_log

\* C22: an administrator's POST /impersonate succeeds only for a target that
\* exists, is no administrator and is not the requester; an administrator as
\* target is refused with 403, the requester itself with 400, a missing
\* user_id with 400 and an unknown user with 404, each leaving the session and
\* the activity log as they were.
C22_TargetsRestricted ==
    AdminSession =>
        \A data \in ImpersonateBodies :
            /\ Impersonating(data).response.status = 200 =>
                   /\ TargetOf(data) # NoRow
                   /\ ~TargetOf(data).is_admin
                   /\ TargetOf(data).id # Get(session, "user_id")
            /\ GetOr(data, "user_id", 0) = 0 => Refused(Impersonating(data), 400)
            /\ (GetOr(data, "user_id", 0) # 0 /\ TargetOf(data) = NoRow) =>
                   Refused(Impersonating(data), 404)
            /\ (TargetOf(data) # NoRow /\ TargetOf(data).id = Get(session, "user_id")) =>
                   Refused(Impersonating(data), 400)
            /\ (TargetOf(data) # NoRow /\ TargetOf(data).is_admin
                    /\ TargetOf(data).id # Get(session, "user_id")) =>
                   Refused(Impersonating(data), 403)


\* the user a session impersonates (0: none)
Impersonated(s) == GetOr(s, "impersonated_user_id", 0)

\* this step starts an impersonation / ends the one that was going on
StartsImpersonation ==
    Impersonated(session') # 0 /\ Impersonated(session') # Impersonated(session)
EndsImpersonation ==
    Impersonated(session) # 0 /\ Impersonated(session') # Impersonated(session)

\* this step adds the row to the ActivityLog table
Logs(row) ==
    \E i \in (Len(activity_log) + 1)..Len(activity_log') : activity_log'[i] = row

\* C23: every request that starts an impersonation adds a start_impersonation
\* row, and every request that ends one (stop-impersonation, logout, or a new
\* impersonation taking its place) adds an end_impersonation row naming the
\* same administrator and impersonated user.
C23_AllActivitiesLogged ==
    [][/\ StartsImpersonation =>
              Logs(ActivityLog(Get(session', "user_id"), Impersonated(session'),
                               "start_impersonation"))
       /\ EndsImpersonation =>
              Logs(ActivityLog(Get(session, "user_id"), Impersonated(session),
                               "end_impersonation"))
      ]_vars


\* C24: a POST /logout from a logged-in session answers 200 and leaves a
\* session with neither user_id nor impersonated_user_id; from a session that
\* is not logged in it answers 401 and changes nothing; and the next
\* successful login of a logged-out session acts as the logged-in user itself
\* (effective user = current user).
C24_LogoutEndsImpersonation ==
    [][/\ (Serving("logout") /\ Has(session, "user_id")) =>
              /\ response'.status = 200
              /\ ~Has(session', "user_id")
              /\ ~Has(session', "impersonated_user_id")
       /\ (Serving("logout") /\ ~Has(session, "user_id")) =>
              /\ response'.status = 401
              /\ response'.error = "Not logged in"
              /\ NothingChanged
       /\ (Serving("login") /\ response'.status = 200 /\ ~Has(session, "user_id")) =>
              /\ Has(session', "user_id")
              /\ get_effective_user(session', users') = get_current_user(session', users')
      ]_vars

\* a login that follows the logout of an impersonating administrator: the
\* log has the start row and no end row, the session no impersonation
C24_Witness ==
    /\ response.route = "login" /\ response.status = 200
    /\ activity_log = <<ActivityLog(1, 2, "start_impersonation")>>
    /\ Has(session, "user_id")
    /\ ~Has(session, "impersonated_user_id")
    /\ get_effective_user(session, users) = get_current_user(session, users)


\* what GET /dashboard would answer for the session a step leaves
DashboardAfter == dashboard(session', users', activity_log').response

\* C26: POST /stop-impersonation answers 401 when the session is not logged
\* in and 400 when it has no impersonated_user_id, leaving session and
\* activity log unchanged; otherwise it answers 200, removes
\* impersonated_user_id and keeps user_id, and /dashboard then shows the
\* logged-in user with no impersonation_info.
C26_StopImpersonation ==
    [][Serving("stop-impersonation") =>
          IF ~Has(session, "user_id")
          THEN /\ response'.status = 401
               /\ NothingChanged
          ELSE IF ~Has(session, "impersonated_user_id")
          THEN /\ response'.status = 400
               /\ NothingChanged
          ELSE /\ response'.status = 200
               /\ session' = Pop(session, "impersonated_user_id")
               /\ Has(session', "user_id")
               /\ Get(session', "user_id") = Get(session, "user_id")
               /\ DashboardAfter.status = 200
               /\ DashboardAfter.effective = Get(session, "user_id")
               /\ ~DashboardAfter.impersonation_info
      ]_vars

\* the administrator has stopped impersonating pratiksha
C26_Witness ==
    /\ response.route = "stop-impersonation" /\ response.status = 200
    /\ activity_log = <<ActivityLog(1, 2, "start_impersonation"),
                        ActivityLog(1, 2, "end_impersonation")>>
    /\ Has(session, "user_id")
    /\ ~Has(session, "impersonated_user_id")


\* this step is a call of validate_payload
Validating == last'.op = "validate"

\* C25: a call of validate_payload leaves the envelope it was given (its
\* signature field included), the secret, the builder and the clock as they
\* were; the replay set keeps what it had and gains at most one element, the
\* request_id of the envelope.
C25_ValidateFrame ==
    [][Validating =>
          /\ wire' = wire
          /\ validator'.secret_key = validator.secret_key
          /\ builder' = builder
          /\ now' = now
          /\ validator.processed_requests \subseteq validator'.processed_requests
          /\ validator'.processed_requests \subseteq
                 validator.processed_requests \cup CarriedIds(wire.payload)
          /\ Cardinality(validator'.processed_requests \ validator.processed_requests) <= 1
      ]_vars

\* a returned call on an envelope with its signature field has added the
\* envelope's request_id to the replay set
C25_Witness ==
    /\ Returned
    /\ Has(wire.payload, "signature")
    /\ validator.processed_requests = last.before \cup CarriedIds(wire.payload)
    /\ validator.processed_requests # last.before


\* C27: after any sequence of validate_payload calls the replay set is
\* exactly the set of non-empty request_id values of the envelopes passed to
\* those calls, accepted or rejected.
C27_ReplaySetExact == validator.processed_requests = carried


-----------------------------------------------------------------------------
(* C28: envelopes without a usable request_id                              *)

\* meta is there and request_id is missing, None or the empty string
Unprotected ==
    /\ wire # NoDelivery
    /\ Has(wire.payload, "meta")
    /\ Get(wire.payload, "meta")[1] = "dict"
    /\ GetOr(Get(wire.payload, "meta")[2], "request_id", None) \in {None, Str("")}

\* C28: for an envelope whose meta has no request_id, or None or "" as
\* request_id, validate_payload reports no replay error and leaves the replay
\* set as it was; so such an envelope, correctly signed and fresh, is valid
\* at every call, however many were made before.
C28_NoIdNoReplayProtection ==
    (Called /\ Unprotected) =>
        /\ ~InErrors("Duplicate request ID (replay attack)")
        /\ validator.processed_requests = last.before
        /\ (AsBuilt /\ SameSecret /\ HasTimestamp /\ Age <= MAX_AGE) =>
               (Returned /\ last.valid /\ last.errors = <<>>)

\* an envelope with request_id "" is accepted by a validator that has
\* recorded the id of another envelope before, at a later clock reading
C28_Witness ==
    /\ Called /\ Unprotected /\ AsBuilt /\ SameSecret
    /\ Has(Get(wire.payload, "meta")[2], "request_id")
    /\ Get(Get(wire.payload, "meta")[2], "request_id") = Str("")
    /\ last.valid
    /\ last.clock > 0
    /\ validator.processed_requests # {}


-----------------------------------------------------------------------------
(* C29: the text "sha256=" in the signature header                         *)

\* a signature header with every "sha256=" taken out, as one str
RECURSIVE Remains(_)
Remains(header) ==
    IF header = <<>> THEN ""
    ELSE (IF Head(header) = "sha256=" THEN "" ELSE Head(header)) \o Remains(Tail(header))

\* D: the base64 text of the digest the validator computes for the envelope
ExpectedDigest ==
    b64encode(hmac_sha256(validator.secret_key, dumps(Map(Pop(wire.payload, "signature")))))

\* the header is D with "sha256=" in front, not at all, twice, behind it or
\* inside it
PrefixedSomewhere ==
    \/ wire.signature = <<"sha256=", ExpectedDigest>>
    \/ wire.signature = <<ExpectedDigest>>
    \/ wire.signature = <<"sha256=", "sha256=", ExpectedDigest>>
    \/ wire.signature = <<ExpectedDigest, "sha256=">>
    \/ /\ Len(wire.signature) = 3
       /\ wire.signature[2] = "sha256="
       /\ wire.signature[1] \o wire.signature[3] = ExpectedDigest

\* C29: the signature check passes for the headers "sha256=" + D, D alone and
\* D with "sha256=" repeated or inserted anywhere, and it fails exactly when
\* the header with every "sha256=" taken out differs from D.
C29_PrefixRemovedEverywhere ==
    Returned =>
        /\ PrefixedSomewhere => ~InErrors("Invalid signature")
        /\ InErrors("Invalid signature") <=> (Remains(wire.signature) # ExpectedDigest)

\* a header with "sha256=" inside D has passed the signature check
C29_Witness ==
    /\ Returned
    /\ Len(wire.signature) = 3
    /\ wire.signature[1] = "b64:"
    /\ wire.signature[2] = "sha256="
    /\ wire.signature[1] \o wire.signature[3] = ExpectedDigest
    /\ last.valid


-----------------------------------------------------------------------------
(* C30: the signature field of the envelope                                *)

\* the outcome of validate_payload in the present state for this envelope
OutcomeFor(payload) == validate_payload(validator, payload, wire.signature, now)

\* C30: for every envelope and received signature the outcome of
\* validate_payload (verdict, error list, replay set) is the same with the
\* envelope's signature field as it is, with the field removed and with any
\* other value in it; an envelope without the field misses no required field.
C30_SignatureFieldIgnored ==
    wire # NoDelivery =>
        /\ OutcomeFor(Pop(wire.payload, "signature")) = OutcomeFor(wire.payload)
        /\ \A x \in SignatureFields \cup {Text(wire.signature)} :
               OutcomeFor(Put(wire.payload, "signature", x)) = OutcomeFor(wire.payload)
        /\ (Called /\ ~Has(wire.payload, "signature")) =>
               ~InErrors("Missing required field: signature")

\* an envelope whose signature field was taken out is accepted on the
\* signature passed beside it
C30_Witness ==
    /\ Returned
    /\ ~Has(wire.payload, "signature")
    /\ Has(wire.signed, "signature")
    /\ wire.signature = OwnSignature(wire.signed)
    /\ last.valid


-----------------------------------------------------------------------------
(* C31: the session while it impersonates                                  *)

\* C31: whenever the session holds impersonated_user_id it also holds a
\* user_id that is an administrator's, and the impersonated user is a
\* non-admin other than that user; so a session whose user is no
\* administrator is never shown another user's dashboard.
C31_ImpersonationSessionInvariant ==
    /\ Has(session, "impersonated_user_id") =>
           /\ Has(session, "user_id")
           /\ get_current_user(session, users).is_admin
           /\ get_effective_user(session, users) # NoRow
           /\ ~get_effective_user(session, users).is_admin
           /\ Get(session, "impersonated_user_id") # Get(session, "user_id")
    /\ (Has(session, "user_id") /\ ~get_current_user(session, users).is_admin) =>
           get_effective_user(session, users) = get_current_user(session, users)


-----------------------------------------------------------------------------
(* C32: a profile that is none of the three names                          *)

\* create_payload was called with a profile other than "minimal", "standard"
CalledOtherProfile ==
    direct.op = "create_payload" /\ direct.profile \notin {"minimal", "standard"}

\* C32: with any profile string other than "minimal" and "standard"
\* create_payload raises nothing and returns an envelope whose data is the
\* input data, unreduced: the envelope it returns for "detailed".
C32_UnknownProfileIsDetailed ==
    CalledOtherProfile =>
        /\ direct.raised = "none"
        /\ direct.out # <<>>
        /\ Get(direct.out, "data") = direct.arg
        /\ direct.out = create_payload(builder, "incident_detected", direct.arg, "detailed",
                                       "medium", 0, "0a1b2c3d", "0a1b2c3d")

\* a misspelt "standard" with data that "standard" would reduce
C32_Witness ==
    /\ direct.op = "create_payload" /\ direct.profile = "standrad"
    /\ direct.out # <<>>
    /\ HasObjects
    /\ Has(DataIn, "debug_info") /\ Has(DataOut, "debug_info")
    /\ Len(ObjectsIn) = 2
    /\ ~Confident(ObjectsIn[1]) /\ Boxed(ObjectsIn[2])
    /\ ObjectsOut = ObjectsIn


-----------------------------------------------------------------------------
(* C33: the standard profile, what the compression keeps                   *)

DetailsIn  == Get(DataIn, "detection_details")[2]
DetailsOut == Get(DataOut, "detection_details")[2]

\* the output object has bbox exactly when the input object had a bounding
\* box given as a mapping or as a list
BboxWhenBoxed(obj_in, obj_out) ==
    Has(obj_out[2], "bbox") <=>
        (Has(obj_in[2], "bounding_box") /\ Get(obj_in[2], "bounding_box")[1] \in {"dict", "list"})

\* C33: under profile "standard" the output detection_details has no key
\* other than objects (siblings of objects are dropped, and without objects
\* it is the empty mapping), and every output object has the keys type and
\* conf, the key bbox exactly when the input object had a bounding box given
\* as a mapping or list, and no other key.
C33_CompressionKeepsOnlyNamed ==
    (Created("standard") /\ Has(DataIn, "detection_details")) =>
        /\ Has(DataOut, "detection_details")
        /\ Keys(DetailsOut) \subseteq {"objects"}
        /\ ~Has(DetailsIn, "objects") => DetailsOut = <<>>
        /\ Has(DetailsIn, "objects") =>
              /\ Has(DetailsOut, "objects")
              /\ Len(ObjectsOut) = Len(SelectSeq(ObjectsIn, Confident))
              /\ \A i \in DOMAIN ObjectsOut :
                    /\ {"type", "conf"} \subseteq Keys(ObjectsOut[i][2])
                    /\ Keys(ObjectsOut[i][2]) \subseteq {"type", "conf", "bbox"}
                    /\ Len(ObjectsOut[i][2]) = Cardinality(Keys(ObjectsOut[i][2]))
                    /\ BboxWhenBoxed(SelectSeq(ObjectsIn, Confident)[i], ObjectsOut[i])

\* details with a sibling of objects and an object with a further attribute
C33_Witness ==
    /\ Created("standard") /\ HasObjects
    /\ Has(DetailsIn, "frame_size") /\ ~Has(DetailsOut, "frame_size")
    /\ Len(ObjectsIn) = 1
    /\ Has(ObjectsIn[1][2], "attributes")
    /\ Len(ObjectsOut) = 1
    /\ Keys(ObjectsOut[1][2]) = {"type", "conf", "bbox"}

====
